---- MODULE Spec2Model ----
(***************************************************************************)
(* A model of the Citizenry product scraper (citizenry_scraper.py) and of  *)
(* the JSON-to-CSV description cleaner (json-to-csv-converter.py).         *)
(*                                                                         *)
(* Python strings that the code searches, splits or rewrites are modelled  *)
(* as sequences of one-character strings, so that `in`, split, replace,    *)
(* startswith and lower() are computed character by character.  Strings    *)
(* that the code only concatenates (prices) are TLA+ strings.              *)
(*                                                                         *)
(* The module holds five specifications over one set of variables:         *)
(*   SpecRetry    make_request_with_retry, one loop iteration per step     *)
(*   SpecMain     main: discovery, fallback, the scrape loop, the export   *)
(*   SpecKeywords extract_keywords                                         *)
(*   SpecClean    clean_description, applied once and then again           *)
(*   SpecConvert  convert_citizenry_json_to_csv                            *)
(* Each specification leaves the variables of the others at their idle     *)
(* values.                                                                 *)
(***************************************************************************)
EXTENDS Integers, Sequences, FiniteSets, TLC

VARIABLES
    \* make_request_with_retry
    rpc,              \* "idle" | "loop" | "done"
    attempt,          \* the for loop's variable: the index of the next attempt
    posts,            \* number of requests.post calls made so far
    sleeps,           \* the time.sleep calls made: <<[after |-> attempt, secs |-> n], ...>>
    replies,          \* what each requests.post call produced, in order
    result,           \* what the call gave its caller (Running until it ends)
    \* main
    pc,               \* "idle" | "discover" | "fallback" | "loop" | "done" | "aborted"
    ci,               \* number of collection pages requested so far
    all_product_urls, \* the set accumulated over the collection pages
    via,              \* "none" | "category" | "fallback": who produced product_urls
    product_urls,     \* the list main iterates over
    idx,              \* number of product URLs processed by main's loop
    scraped,          \* the arguments of the scrape_product calls, in order
    api_data,         \* the product_data behind each accumulated record
    products,         \* main's list of accumulated records
    failed_count,     \* main's counter of failed extractions
    csv_written,      \* whether save_to_csv opened the CSV file
    csv_rows,         \* the data rows save_to_csv wrote
    \* extract_keywords
    kpc,              \* "idle" | "call" | "done"
    text,             \* the argument
    found_keywords,   \* the returned list
    \* clean_description
    dpc,              \* "idle" | "call" | "again" | "done"
    description,      \* the argument of the first call
    truncated,        \* clean_desc after the marker loop of the first call
    cleaned,          \* the value the first call returned
    recleaned,        \* the value clean_description(cleaned) returned
    \* convert_citizenry_json_to_csv
    vpc,              \* "idle" | "load" | "rows" | "done"
    json_products,    \* the list json.load returned
    out_written,      \* whether the output CSV was opened and its header written
    out_rows          \* the data rows written so far

retryVars == <<rpc, attempt, posts, sleeps, replies, result>>
mainVars == <<pc, ci, all_product_urls, via, product_urls, idx, scraped, api_data,
              products, failed_count, csv_written, csv_rows>>
keywordVars == <<kpc, text, found_keywords>>
cleanVars == <<dpc, description, truncated, cleaned, recleaned>>
convertVars == <<vpc, json_products, out_written, out_rows>>
vars == <<retryVars, mainVars, keywordVars, cleanVars, convertVars>>

----------------------------------------------------------------------------
(* Bounds of the model.                                                    *)

\* Longest list of URLs one API response carries.
MaxUrls == 2
\* Longest text, in pieces of KeywordPieces, given to extract_keywords.
MaxWords == 2
\* Longest description, in pieces of DescriptionPieces.
MaxPieces == 3
\* Longest product list in the converter's JSON input.
MaxProducts == 3

----------------------------------------------------------------------------
(* Python str operations, on sequences of characters.                      *)

RECURSIVE Concat(_)
\* The concatenation of a sequence of strings.
Concat(ss) == IF ss = <<>> THEN <<>> ELSE Head(ss) \o Concat(Tail(ss))

\* s.startswith(p)
StartsWith(s, p) == Len(p) <= Len(s) /\ SubSeq(s, 1, Len(p)) = p

\* p occurs in s starting at the 1-based position i.
OccursAt(s, p, i) == i >= 1 /\ i + Len(p) - 1 <= Len(s) /\ SubSeq(s, i, i + Len(p) - 1) = p

\* p in s
Contains(s, p) == \E i \in 1..(Len(s) - Len(p) + 1) : OccursAt(s, p, i)

\* s.find(p) + 1: the 1-based position of the first occurrence of p in s, 0 if none.
Find(s, p) ==
    IF Contains(s, p)
    THEN CHOOSE i \in 1..(Len(s) - Len(p) + 1) :
            OccursAt(s, p, i) /\ \A j \in 1..(i - 1) : ~OccursAt(s, p, j)
    ELSE 0

\* s.split(p)[0]: everything before the first occurrence of p, s itself if none.
SplitFirst(s, p) == IF Contains(s, p) THEN SubSeq(s, 1, Find(s, p) - 1) ELSE s

RECURSIVE ReplaceAll(_, _, _)
\* s.replace(old, new): left to right, occurrences not overlapping.
ReplaceAll(s, old, new) ==
    IF ~Contains(s, old) THEN s
    ELSE LET i == Find(s, old)
         IN  SubSeq(s, 1, i - 1) \o new
                 \o ReplaceAll(SubSeq(s, i + Len(old), Len(s)), old, new)

\* The characters str.split() and str.strip() treat as whitespace.
Whitespace == {" ", "\n", "\t"}

\* s.split(): the maximal runs of characters that are not whitespace.
SplitWhitespace(s) ==
    LET IsStart(i) == s[i] \notin Whitespace /\ (i = 1 \/ s[i - 1] \in Whitespace)
        IsEnd(i) == s[i] \notin Whitespace /\ (i = Len(s) \/ s[i + 1] \in Whitespace)
        starts == SelectSeq([i \in 1..Len(s) |-> i], IsStart)
        ends == SelectSeq([i \in 1..Len(s) |-> i], IsEnd)
    IN  [k \in 1..Len(starts) |-> SubSeq(s, starts[k], ends[k])]

RECURSIVE JoinSpace(_)
\* ' '.join(words)
JoinSpace(words) ==
    IF words = <<>> THEN <<>>
    ELSE IF Len(words) = 1 THEN Head(words)
    ELSE Head(words) \o <<" ">> \o JoinSpace(Tail(words))

RECURSIVE LStrip(_)
LStrip(s) == IF s # <<>> /\ Head(s) \in Whitespace THEN LStrip(Tail(s)) ELSE s

RECURSIVE RStrip(_)
RStrip(s) ==
    IF s # <<>> /\ s[Len(s)] \in Whitespace THEN RStrip(SubSeq(s, 1, Len(s) - 1)) ELSE s

\* s.strip()
Strip(s) == RStrip(LStrip(s))

Upper == <<"A","B","C","D","E","F","G","H","I","J","K","L","M",
           "N","O","P","Q","R","S","T","U","V","W","X","Y","Z">>
Lower == <<"a","b","c","d","e","f","g","h","i","j","k","l","m",
           "n","o","p","q","r","s","t","u","v","w","x","y","z">>

\* c.lower() of one ASCII character.
LowerChar(c) ==
    IF \E i \in 1..Len(Upper) : Upper[i] = c
    THEN Lower[CHOOSE i \in 1..Len(Upper) : Upper[i] = c]
    ELSE c

\* s.lower()
LowerStr(s) == [i \in 1..Len(s) |-> LowerChar(s[i])]

Digits == <<"0","1","2","3","4","5","6","7","8","9">>

IsDigit(c) == \E i \in 1..Len(Digits) : Digits[i] = c

DigitValue(c) == (CHOOSE i \in 1..Len(Digits) : Digits[i] = c) - 1

RECURSIVE DecimalValue(_, _)
DecimalValue(s, acc) ==
    IF s = <<>> THEN acc ELSE DecimalValue(Tail(s), 10 * acc + DigitValue(Head(s)))

\* Whether int(s) accepts the string s: an optional sign and decimal digits,
\* surrounding whitespace allowed.  Anything else raises ValueError.
IntAccepts(s) ==
    LET t == Strip(s)
        u == IF t # <<>> /\ Head(t) \in {"+", "-"} THEN Tail(t) ELSE t
    IN  u # <<>> /\ \A i \in 1..Len(u) : IsDigit(u[i])

\* int(s), for a string int() accepts.
IntOf(s) ==
    LET t == Strip(s)
        neg == t # <<>> /\ Head(t) = "-"
        u == IF t # <<>> /\ Head(t) \in {"+", "-"} THEN Tail(t) ELSE t
    IN  IF neg THEN 0 - DecimalValue(u, 0) ELSE DecimalValue(u, 0)

----------------------------------------------------------------------------
(* make_request_with_retry                                                 *)

max_retries == 3

\* What one requests.post call can produce: a transport exception
\* (requests.exceptions.RequestException), or a response with a status code
\* and, possibly, a Retry-After header.
Reply(exc, status, has, value) ==
    [exc |-> exc, status |-> status, has_retry_after |-> has, retry_after |-> value]

TransportError == Reply(TRUE, 0, FALSE, <<>>)

\* Retry-After is a number of seconds or an HTTP date (RFC 9110, 10.2.3); a
\* server may also send a number that time.sleep rejects.
RetryAfterValues == {<<"5">>, <<"-","1">>, <<"W","e","d",","," ","2","1"," ","O","c","t"," ","2","0","2","6"," ","0","7",":","2","8",":","0","0"," ","G","M","T">>}

Replies ==
    {TransportError}
    \cup {Reply(FALSE, s, FALSE, <<>>) : s \in {200, 404, 429, 500, 503}}
    \cup {Reply(FALSE, 429, TRUE, v) : v \in RetryAfterValues}

Running == [kind |-> "running", reply |-> TransportError]
None == [kind |-> "None", reply |-> TransportError]
\* An exception that make_request_with_retry does not catch leaves the call.
Raised == [kind |-> "raised", reply |-> TransportError]
Response(r) == [kind |-> "response", reply |-> r]

\* A backoff that grows linearly, 30 * (2 * attempt), for comparison with Backoff.
BackoffLinear(a) == 30 * (2 * a)

\* wait_time = 30 * (2 ** attempt)
Backoff(a) == 30 * (2 ^ a)

\* One iteration of the for loop, given what requests.post produced: how the
\* iteration ends ("return", "continue" to the next iteration, or "raise")
\* and the time.sleep calls it makes.  The except clause catches only
\* RequestException: the ValueError of int() on a Retry-After that is no
\* integer, and that of time.sleep on a negative one, leave the function.
AttemptStep(reply, a) ==
    IF reply.exc
    THEN [kind |-> "continue", slept |-> <<Backoff(a)>>]
    ELSE IF reply.status = 429
    THEN IF ~reply.has_retry_after
         THEN [kind |-> "continue", slept |-> <<30>>]
         ELSE IF ~IntAccepts(reply.retry_after)
         THEN [kind |-> "raise", slept |-> <<>>]
         ELSE IF IntOf(reply.retry_after) < 0
         THEN [kind |-> "raise", slept |-> <<>>]
         ELSE [kind |-> "continue", slept |-> <<IntOf(reply.retry_after)>>]
    ELSE IF reply.status >= 500
    THEN [kind |-> "continue", slept |-> <<Backoff(a)>>]
    ELSE [kind |-> "return", slept |-> <<>>]

\* One iteration of `for attempt in range(max_retries)`.
Attempt ==
    /\ rpc = "loop"
    /\ attempt < max_retries
    /\ \E reply \in Replies :
        LET step == AttemptStep(reply, attempt)
        IN  /\ posts' = posts + 1
            /\ replies' = Append(replies, reply)
            /\ sleeps' = sleeps \o [i \in 1..Len(step.slept) |->
                                      [after |-> attempt, secs |-> step.slept[i]]]
            /\ IF step.kind = "return"
               THEN rpc' = "done" /\ result' = Response(reply) /\ attempt' = attempt
               ELSE IF step.kind = "raise"
               THEN rpc' = "done" /\ result' = Raised /\ attempt' = attempt
               ELSE rpc' = "loop" /\ result' = result /\ attempt' = attempt + 1
    /\ UNCHANGED <<mainVars, keywordVars, cleanVars, convertVars>>

\* The loop is exhausted: `return None`.
Exhausted ==
    /\ rpc = "loop"
    /\ attempt = max_retries
    /\ rpc' = "done"
    /\ result' = None
    /\ UNCHANGED <<attempt, posts, sleeps, replies>>
    /\ UNCHANGED <<mainVars, keywordVars, cleanVars, convertVars>>

RECURSIVE RunAttempts(_, _)
\* The value of a whole call whose successive requests.post calls produce rs.
RunAttempts(rs, a) ==
    IF a = max_retries THEN None
    ELSE LET step == AttemptStep(rs[a + 1], a)
         IN  IF step.kind = "return" THEN Response(rs[a + 1])
             ELSE IF step.kind = "raise" THEN Raised
             ELSE RunAttempts(rs, a + 1)

make_request_with_retry(rs) == RunAttempts(rs, 0)

----------------------------------------------------------------------------
(* The values of the extraction API's JSON answers.                        *)

\* A JSON value read with dict.get: a string, null (None), or a missing key.
Str(s) == [t |-> "str", v |-> s]
Null == [t |-> "null", v |-> ""]
Absent == [t |-> "absent", v |-> ""]

\* d.get(k, default), for a dict d given as a record whose missing keys hold Absent.
Get(d, k, default) == IF d[k] = Absent THEN default ELSE d[k]

\* Python's truth value of a string or None.
Truthy(x) == x.t = "str" /\ x.v # ""

\* How an f-string renders a string or None.
Format(x) == IF x.t = "null" THEN "None" ELSE x.v

\* Every outcome a call of make_request_with_retry can have.
ReplySeqs == [1..max_retries -> Replies]
RetryOutcomes == {make_request_with_retry(rs) : rs \in ReplySeqs}

\* `response and response.status_code == 200`; a Response is falsy from 400 on.
IsOk200(out) == out.kind = "response" /\ out.reply.status = 200

----------------------------------------------------------------------------
(* discover_product_urls and discover_fallback_urls                        *)

BASE_URL == <<"h","t","t","p","s",":","/","/","w","w","w",".","t","h","e","-","c","i","t","i","z","e","n","r","y",".","c","o","m">>

\* len(collection_urls)
NumCollections == 12

\* An element of the URL list the API returns: a string, or a value of
\* another JSON type, of which the code reads only str(url).
UrlItem(is_str, s) == [is_str |-> is_str, s |-> s]

UrlItems ==
    { UrlItem(TRUE, <<"/","p","r","o","d","u","c","t","s","/","a">>),
      UrlItem(TRUE, <<"h","t","t","p","s",":","/","/","w","w","w",".","t","h","e","-","c","i","t","i","z","e","n","r","y",".","c","o","m","/","p","r","o","d","u","c","t","s","/","a","?","v","a","r","i","a","n","t","=","1">>),
      UrlItem(TRUE, <<"c","o","l","l","e","c","t","i","o","n","s","/","r","u","g","s","/","p","r","o","d","u","c","t","s","/","b">>),
      UrlItem(TRUE, <<"/","s","e","a","r","c","h","?","q","=","/","p","r","o","d","u","c","t","s","/">>),
      UrlItem(TRUE, <<"/","c","o","l","l","e","c","t","i","o","n","s","/","a","l","l">>),
      UrlItem(TRUE, <<>>),
      UrlItem(FALSE, <<"{","'","h","r","e","f","'",":"," ","'","/","p","r","o","d","u","c","t","s","/","a","'","}">>) }

\* The lists of at most n elements of S.
SeqsUpTo(S, n) == UNION {[1..k -> S] : k \in 0..n}

\* The body of a 200 answer to a discovery request: one that response.json()
\* or the dict accesses reject (ok = FALSE), or a list of URLs.
UrlBodies ==
    {[ok |-> FALSE, urls |-> <<>>]}
    \cup {[ok |-> TRUE, urls |-> l] : l \in SeqsUpTo(UrlItems, MaxUrls)}

\* `if url.startswith('/'): url = BASE_URL + url`
Qualify(s) == IF StartsWith(s, <<"/">>) THEN BASE_URL \o s ELSE s

ProductsSegment == <<"/","p","r","o","d","u","c","t","s","/">>

\* The body of `for url in urls` in discover_product_urls: the set after the loop.
AddProductUrls(acc, urls) ==
    acc \cup { Qualify(urls[i].s) : i \in
                 { j \in 1..Len(urls) :
                     /\ urls[j].is_str
                     /\ urls[j].s # <<>>
                     /\ Contains(Qualify(urls[j].s), ProductsSegment) } }

\* url.split('?')[0]
CleanUrl(u) == SplitFirst(u, <<"?">>)

\* The set built by `for url in product_urls: unique_urls.add(url.split('?')[0])`.
UniqueUrls(S) == {CleanUrl(u) : u \in S}

\* list(S): the elements of S, each once, in an order the set decides.
ListsOf(S) ==
    {l \in [1..Cardinality(S) -> S] : \A i, j \in 1..Cardinality(S) : i # j => l[i] # l[j]}

RECURSIVE FallbackLoop(_, _)
\* `for url in urls` in discover_fallback_urls: the list built, or the
\* AttributeError of url.startswith on a value that is no string.
FallbackLoop(urls, acc) ==
    IF urls = <<>> THEN [raised |-> FALSE, urls |-> acc]
    ELSE LET url == Head(urls)
             truthy == ~url.is_str \/ url.s # <<>>
         IN  IF truthy /\ Contains(url.s, ProductsSegment)
             THEN IF ~url.is_str
                  THEN [raised |-> TRUE, urls |-> acc]
                  ELSE FallbackLoop(Tail(urls), Append(acc, Qualify(url.s)))
             ELSE FallbackLoop(Tail(urls), acc)

\* The value discover_fallback_urls returns, given the outcome of its request
\* and the body of a 200 answer.
discover_fallback_urls(out, body) ==
    IF IsOk200(out) /\ body.ok /\ ~FallbackLoop(body.urls, <<>>).raised
    THEN FallbackLoop(body.urls, <<>>).urls
    ELSE <<>>

----------------------------------------------------------------------------
(* scrape_product                                                          *)

\* The product_data of a 200 answer, of which the model keeps the two price
\* fields that decide the record's 'Price'.
CurrentPrices == {Absent, Null, Str("$100")}
OriginalPrices == {Absent, Null, Str(""), Str("$100"), Str("$150")}

ProductData == [current_price : CurrentPrices, original_price : OriginalPrices]

\* A price display that leaves out the comparison with the current price,
\* for comparison with PriceDisplay.
PriceDisplayNoCompare(product_data) ==
    LET current_price == Get(product_data, "current_price", Str(""))
        original_price == Get(product_data, "original_price", Str(""))
    IN  IF Truthy(original_price)
        THEN Str(Format(current_price) \o " (was " \o Format(original_price) \o ")")
        ELSE current_price

\* price_display, from `price_display = current_price` to the f-string.
PriceDisplay(product_data) ==
    LET current_price == Get(product_data, "current_price", Str(""))
        original_price == Get(product_data, "original_price", Str(""))
    IN  IF Truthy(original_price) /\ original_price # current_price
        THEN Str(Format(current_price) \o " (was " \o Format(original_price) \o ")")
        ELSE current_price

\* The body of a 200 answer to a product request: one whose processing raises
\* inside the try block (ok = FALSE), an empty data object, or product_data.
NoData == [current_price |-> Absent, original_price |-> Absent]
ProductBodies ==
    {[ok |-> FALSE, empty |-> FALSE, data |-> NoData],
     [ok |-> TRUE, empty |-> TRUE, data |-> NoData]}
    \cup {[ok |-> TRUE, empty |-> FALSE, data |-> d] : d \in ProductData}

\* The record scrape_product returns (the fields the export of a price and of
\* a source URL rests on).
Record(product_url, product_data) ==
    [Price |-> PriceDisplay(product_data), OriginalURL |-> product_url]

\* Whether scrape_product returns a record rather than None.
ScrapeSucceeds(out, body) == IsOk200(out) /\ body.ok /\ ~body.empty

----------------------------------------------------------------------------
(* main                                                                    *)

\* An exception leaves main: the top-level handler logs it and the run ends.
Abort ==
    /\ pc' = "aborted"
    /\ UNCHANGED <<ci, all_product_urls, via, product_urls, idx, api_data, products,
                   failed_count, csv_written, csv_rows>>

\* One iteration of `for collection_url in collection_urls`.
DiscoverCollection ==
    /\ pc = "discover"
    /\ ci < NumCollections
    /\ \E out \in RetryOutcomes :
        IF out = Raised
        THEN Abort /\ UNCHANGED scraped
        ELSE /\ \E body \in UrlBodies :
                  all_product_urls' =
                      IF IsOk200(out) /\ body.ok
                      THEN AddProductUrls(all_product_urls, body.urls)
                      ELSE all_product_urls
             /\ ci' = ci + 1
             /\ UNCHANGED <<pc, via, product_urls, idx, scraped, api_data, products,
                            failed_count, csv_written, csv_rows>>
    /\ UNCHANGED <<retryVars, keywordVars, cleanVars, convertVars>>

\* After the loop, with URLs found: the second deduplication, and main's loop starts.
DiscoverFinish ==
    /\ pc = "discover"
    /\ ci = NumCollections
    /\ all_product_urls # {}
    /\ \E final_urls \in ListsOf(UniqueUrls(all_product_urls)) :
        product_urls' = final_urls
    /\ via' = "category"
    /\ pc' = "loop"
    /\ UNCHANGED <<ci, all_product_urls, idx, scraped, api_data, products,
                   failed_count, csv_written, csv_rows>>
    /\ UNCHANGED <<retryVars, keywordVars, cleanVars, convertVars>>

\* After the loop, with no URL found: `return discover_fallback_urls()`, and
\* main returns at once when that list is empty too.
DiscoverFallback ==
    /\ pc = "discover"
    /\ ci = NumCollections
    /\ all_product_urls = {}
    /\ \E out \in RetryOutcomes :
        IF out = Raised
        THEN Abort /\ UNCHANGED scraped
        ELSE /\ \E body \in UrlBodies :
                  /\ product_urls' = discover_fallback_urls(out, body)
                  /\ pc' = IF product_urls' = <<>> THEN "done" ELSE "loop"
             /\ via' = "fallback"
             /\ UNCHANGED <<ci, all_product_urls, idx, scraped, api_data, products,
                            failed_count, csv_written, csv_rows>>
    /\ UNCHANGED <<retryVars, keywordVars, cleanVars, convertVars>>

\* One iteration of `for i, url in enumerate(product_urls, 1)`.
ScrapeProduct ==
    /\ pc = "loop"
    /\ idx < Len(product_urls)
    /\ LET url == product_urls[idx + 1]
       IN  /\ scraped' = Append(scraped, url)
           /\ \E out \in RetryOutcomes :
                IF out = Raised
                THEN Abort
                ELSE /\ \E body \in ProductBodies :
                          IF ScrapeSucceeds(out, body)
                          THEN /\ products' = Append(products, Record(url, body.data))
                               /\ api_data' = Append(api_data, body.data)
                               /\ failed_count' = failed_count
                          ELSE /\ products' = products
                               /\ api_data' = api_data
                               /\ failed_count' = failed_count + 1
                     /\ idx' = idx + 1
                     /\ UNCHANGED <<pc, ci, all_product_urls, via, product_urls,
                                    csv_written, csv_rows>>
    /\ UNCHANGED <<retryVars, keywordVars, cleanVars, convertVars>>

\* save_to_csv: nothing is written for an empty list; otherwise a header and
\* one row per product, in list order.
save_to_csv(ps) ==
    IF ps = <<>> THEN [written |-> FALSE, rows |-> <<>>]
    ELSE [written |-> TRUE, rows |-> ps]

\* After the loop: the CSV and the JSON snapshot are written.
Export ==
    /\ pc = "loop"
    /\ idx = Len(product_urls)
    /\ csv_written' = save_to_csv(products).written
    /\ csv_rows' = save_to_csv(products).rows
    /\ pc' = "done"
    /\ UNCHANGED <<ci, all_product_urls, via, product_urls, idx, scraped, api_data,
                   products, failed_count>>
    /\ UNCHANGED <<retryVars, keywordVars, cleanVars, convertVars>>

----------------------------------------------------------------------------
(* extract_keywords                                                        *)

keywords ==
    << <<"F","a","i","r","t","r","a","d","e">>, <<"F","S","C">>, <<"H","a","n","d","m","a","d","e">>, <<"A","r","t","i","s","a","n">>, <<"S","u","s","t","a","i","n","a","b","l","e">>,
       <<"O","r","g","a","n","i","c">>, <<"E","c","o","-","f","r","i","e","n","d","l","y">> >>

\* A keyword search that lowers the text but not the keywords, for
\* comparison with extract_keywords.
extract_keywordsNoLower(t) ==
    IF t = <<>> THEN <<>>
    ELSE LET text_lower == LowerStr(t)
             Found(keyword) == Contains(text_lower, keyword)
         IN  SelectSeq(keywords, Found)

\* extract_keywords(text): the loop appends, in list order, every keyword
\* whose lower-case form is a substring of the lower-case text.
extract_keywords(t) ==
    IF t = <<>> THEN <<>>
    ELSE LET text_lower == LowerStr(t)
             Found(keyword) == Contains(text_lower, LowerStr(keyword))
         IN  SelectSeq(keywords, Found)

KeywordPieces ==
    { <<"H","A","N","D","M","A","D","E">>, <<"o","r","g","a","n","i","c">>, <<"F","s","c">>, <<"E","c","o","-">>, <<"f","r","i","e","n","d","l","y">>, <<" ">>,
      <<"a","r","t","i","s","a","n","s">>, <<"S","u","s","t","a","i","n","a","b","l","y">>, <<"f","a","i","r">>, <<"T","R","A","D","E">> }

KeywordTexts == {Concat(ws) : ws \in SeqsUpTo(KeywordPieces, MaxWords)}

ExtractKeywords ==
    /\ kpc = "call"
    /\ found_keywords' = extract_keywords(text)
    /\ kpc' = "done"
    /\ UNCHANGED text
    /\ UNCHANGED <<retryVars, mainVars, cleanVars, convertVars>>

----------------------------------------------------------------------------
(* clean_description and clean_price                                       *)

sections_to_remove ==
    << <<"#","#","#"," ","S","t","o","r","y">>,
       <<"#","#","#"," ","P","r","o","d","u","c","t"," ","D","e","t","a","i","l","s">>,
       <<"#","#","#"," ","C","a","r","e">>,
       <<"#","#","#"," ","S","h","i","p","p","i","n","g">>,
       <<"#","#","#"," ","R","e","t","u","r","n","s">>,
       <<"C","u","s","t","o","m","e","r"," ","R","e","v","i","e","w","s">>,
       <<"W","r","i","t","e"," ","a"," ","R","e","v","i","e","w">>,
       <<"S","h","i","p","p","i","n","g">>,
       <<"R","e","t","u","r","n","s">>,
       <<"E","a","s","y"," ","3","0"," ","D","a","y"," ","R","e","t","u","r","n","s">>,
       <<"I","n"," ","s","t","o","c","k","."," ","R","e","a","d","y"," ","t","o"," ","s","h","i","p",".">>,
       <<"T","r","a","n","s","l","a","t","i","o","n"," ","m","i","s","s","i","n","g",":">>,
       <<"A","d","d"," ","T","o"," ","B","a","g">>,
       <<"Y","o","u","r"," ","e","m","a","i","l"," ","a","d","d","r","e","s","s">>,
       <<"W","a","n","t"," ","e","a","r","l","y"," ","a","c","c","e","s","s">>,
       <<"S","h","i","p","s"," ">>,
       <<"M","o","s","t"," ","i","n","-","s","t","o","c","k"," ","i","t","e","m","s">>,
       <<"E","x","c","h","a","n","g","e","s"," ","a","n","d"," ","r","e","t","u","r","n","s">>,
       <<"W","h","i","t","e"," ","g","l","o","v","e"," ","d","e","l","i","v","e","r","y">>,
       <<"F","o","r"," ","m","o","r","e"," ","i","n","f","o","r","m","a","t","i","o","n">>,
       <<"C","u","s","t","o","m","e","r"," ","P","h","o","t","o","s">>,
       <<"A","s","k"," ","a"," ","Q","u","e","s","t","i","o","n">>,
       <<"B","a","s","e","d"," ","o","n">>,
       <<"R","e","v","i","e","w","s">>,
       <<"W","a","s"," ","t","h","i","s"," ","h","e","l","p","f","u","l","?">>,
       <<"U","n","i","t","e","d"," ","S","t","a","t","e","s">>,
       <<"L","o","a","d","i","n","g"," ","m","o","r","e",".",".",".">>,
       <<"F","i","l","t","e","r"," ","R","e","v","i","e","w","s",":">>,
       <<"S","o","r","t">> >>

RECURSIVE TruncateAtMarkers(_, _)
\* `for marker in sections_to_remove: if marker in clean_desc:
\*      clean_desc = clean_desc.split(marker)[0]`, from the k-th marker on.
TruncateAtMarkers(clean_desc, k) ==
    IF k > Len(sections_to_remove) THEN clean_desc
    ELSE IF Contains(clean_desc, sections_to_remove[k])
         THEN TruncateAtMarkers(SplitFirst(clean_desc, sections_to_remove[k]), k + 1)
         ELSE TruncateAtMarkers(clean_desc, k + 1)

\* The two replace calls, ' '.join(clean_desc.split()) and the final strip().
CollapseWhitespace(s) ==
    Strip(JoinSpace(SplitWhitespace(
        ReplaceAll(ReplaceAll(s, <<"\n", "\n">>, <<" ">>), <<"\n">>, <<" ">>))))

\* clean_description(description), for a string.
clean_description(d) ==
    IF d = <<>> THEN <<>> ELSE CollapseWhitespace(TruncateAtMarkers(d, 1))

DescriptionPieces ==
    { <<"S","o","f","t"," ","w","o","o","l",".">>, <<" ">>, <<"\n">>, <<"B","a","s","e","d">>, <<"o","n">>, <<"E","a","s","y"," ","3","0"," ","D","a","y"," ","R","e","t","u","r","n","s">>,
      <<"S","h","i","p","p","i","n","g">>, <<"#","#","#"," ","C","a","r","e">> }

Descriptions == {Concat(ps) : ps \in SeqsUpTo(DescriptionPieces, MaxPieces)}

\* clean_description(description)
CleanDescription ==
    /\ dpc = "call"
    /\ truncated' = IF description = <<>> THEN <<>> ELSE TruncateAtMarkers(description, 1)
    /\ cleaned' = clean_description(description)
    /\ dpc' = "again"
    /\ UNCHANGED <<description, recleaned>>
    /\ UNCHANGED <<retryVars, mainVars, keywordVars, convertVars>>

\* clean_description applied to what the first call returned.
CleanDescriptionAgain ==
    /\ dpc = "again"
    /\ recleaned' = clean_description(cleaned)
    /\ dpc' = "done"
    /\ UNCHANGED <<description, truncated, cleaned>>
    /\ UNCHANGED <<retryVars, mainVars, keywordVars, convertVars>>

----------------------------------------------------------------------------
(* convert_citizenry_json_to_csv                                           *)

\* A field of a product object of the JSON input: a string (of characters),
\* null, or a missing key.
Text(s) == [t |-> "str", v |-> s]
NullText == [t |-> "null", v |-> <<>>]
AbsentText == [t |-> "absent", v |-> <<>>]

\* product.get(k, '')
GetText(product, k) == IF product[k] = AbsentText THEN Text(<<>>) ELSE product[k]

\* What csv.DictWriter writes for a value: None becomes the empty string.
Cell(x) == IF x.t = "str" THEN x.v ELSE <<>>

WasNull == <<" ","(","w","a","s"," ","n","u","l","l",")">>

\* clean_price(price)
clean_price(price) ==
    IF price.t # "str" \/ price.v = <<>> THEN <<>> ELSE ReplaceAll(price.v, WasNull, <<>>)

\* clean_description(description), of a field that may be null or empty.
clean_description_field(x) ==
    IF x.t # "str" \/ x.v = <<>> THEN <<>> ELSE clean_description(x.v)

\* The row built for one product.
Row(product) ==
    [ Name |-> Cell(GetText(product, "Name")),
      Price |-> clean_price(GetText(product, "Price")),
      Description |-> clean_description_field(GetText(product, "Description")),
      OriginalURL |-> Cell(GetText(product, "OriginalURL")) ]

\* A writer that puts each new row first, for comparison with WriteRow.
WriteRowFirst(rows, product) == <<Row(product)>> \o rows

\* writer.writerow(row)
WriteRow(rows, product) == Append(rows, Row(product))

ProductObjects ==
    { [ Name |-> Text(<<"R","i","o"," ","T","h","r","o","w">>), Price |-> Text(<<"$","1","0","0"," ","(","w","a","s"," ","n","u","l","l",")">>),
        Description |-> Text(<<"S","o","f","t"," ","w","o","o","l",".","\n","\n","S","h","i","p","p","i","n","g">>),
        OriginalURL |-> Text(<<"/","p","r","o","d","u","c","t","s","/","a">>) ],
      [ Name |-> Text(<<"L","i","m","a"," ","R","u","g">>), Price |-> NullText,
        Description |-> AbsentText,
        OriginalURL |-> Text(<<"/","p","r","o","d","u","c","t","s","/","b">>) ],
      [ Name |-> AbsentText, Price |-> Text(<<"$","8","0"," ","(","w","a","s"," ","$","9","0",")">>),
        Description |-> NullText,
        OriginalURL |-> NullText ] }

\* json.load, then `if not products: return`, else the file is opened and
\* the header written.
ConvertLoad ==
    /\ vpc = "load"
    /\ IF json_products = <<>>
       THEN vpc' = "done" /\ out_written' = FALSE
       ELSE vpc' = "rows" /\ out_written' = TRUE
    /\ UNCHANGED <<json_products, out_rows>>
    /\ UNCHANGED <<retryVars, mainVars, keywordVars, cleanVars>>

\* One iteration of `for product in products`.
ConvertWriteRow ==
    /\ vpc = "rows"
    /\ Len(out_rows) < Len(json_products)
    /\ out_rows' = WriteRow(out_rows, json_products[Len(out_rows) + 1])
    /\ UNCHANGED <<vpc, json_products, out_written>>
    /\ UNCHANGED <<retryVars, mainVars, keywordVars, cleanVars>>

\* The loop is over: the file is closed.
ConvertFinish ==
    /\ vpc = "rows"
    /\ Len(out_rows) = Len(json_products)
    /\ vpc' = "done"
    /\ UNCHANGED <<json_products, out_written, out_rows>>
    /\ UNCHANGED <<retryVars, mainVars, keywordVars, cleanVars>>

----------------------------------------------------------------------------
(* The specifications.                                                     *)

\* The state in which the component c starts and the others are idle.
Init(c) ==
    /\ rpc = IF c = "retry" THEN "loop" ELSE "idle"
    /\ attempt = 0
    /\ posts = 0
    /\ sleeps = <<>>
    /\ replies = <<>>
    /\ result = Running
    /\ pc = IF c = "main" THEN "discover" ELSE "idle"
    /\ ci = 0
    /\ all_product_urls = {}
    /\ via = "none"
    /\ product_urls = <<>>
    /\ idx = 0
    /\ scraped = <<>>
    /\ api_data = <<>>
    /\ products = <<>>
    /\ failed_count = 0
    /\ csv_written = FALSE
    /\ csv_rows = <<>>
    /\ kpc = IF c = "keywords" THEN "call" ELSE "idle"
    /\ text \in IF c = "keywords" THEN KeywordTexts ELSE {<<>>}
    /\ found_keywords = <<>>
    /\ dpc = IF c = "clean" THEN "call" ELSE "idle"
    /\ description \in IF c = "clean" THEN Descriptions ELSE {<<>>}
    /\ truncated = <<>>
    /\ cleaned = <<>>
    /\ recleaned = <<>>
    /\ vpc = IF c = "convert" THEN "load" ELSE "idle"
    /\ json_products \in IF c = "convert"
                         THEN SeqsUpTo(ProductObjects, MaxProducts) ELSE {<<>>}
    /\ out_written = FALSE
    /\ out_rows = <<>>

InitRetry == Init("retry")
NextRetry == Attempt \/ Exhausted
SpecRetry == InitRetry /\ [][NextRetry]_vars

InitMain == Init("main")
NextMain ==
    DiscoverCollection \/ DiscoverFinish \/ DiscoverFallback \/ ScrapeProduct \/ Export
SpecMain == InitMain /\ [][NextMain]_vars

InitKeywords == Init("keywords")
NextKeywords == ExtractKeywords
SpecKeywords == InitKeywords /\ [][NextKeywords]_vars

InitClean == Init("clean")
NextClean == CleanDescription \/ CleanDescriptionAgain
SpecClean == InitClean /\ [][NextClean]_vars

InitConvert == Init("convert")
NextConvert == ConvertLoad \/ ConvertWriteRow \/ ConvertFinish
SpecConvert == InitConvert /\ [][NextConvert]_vars

----------------------------------------------------------------------------
(* Properties of make_request_with_retry (SpecRetry).                      *)

\* A reply after which the loop goes on: 429, a status >= 500, or a
\* transport exception.
IsRetryReply(r) == r.exc \/ r.status = 429 \/ r.status >= 500

\* A reply answered by the exponential backoff: a status >= 500 or a
\* transport exception.
IsBackoffReply(r) == r.exc \/ (r.status >= 500)

Min(S) == CHOOSE x \in S : \A y \in S : x <= y

\* C1: when a call has ended, the caller holds the first reply whose status
\* is neither 429 nor >= 500, and no request followed it; and when every
\* reply was 429, >= 500 or a transport exception, the caller holds None and
\* exactly max_retries requests were made.
C1_FirstFinalResponseOrNone ==
    rpc = "done" =>
        LET finals == {i \in 1..Len(replies) : ~IsRetryReply(replies[i])}
        IN  IF finals # {}
            THEN result = Response(replies[Min(finals)]) /\ posts = Min(finals)
            ELSE result = None /\ posts = max_retries

\* C9 as stated: every reply with a status >= 500 and every transport
\* exception is followed by a sleep of 30 * 2^i seconds and then by another
\* request, and a call makes at most max_retries requests.
C9_EveryBackoffIsRetried ==
    /\ posts <= max_retries
    /\ rpc = "done" =>
        \A i \in 1..Len(replies) :
            IsBackoffReply(replies[i]) =>
                /\ \E k \in 1..Len(sleeps) :
                      sleeps[k] = [after |-> i - 1, secs |-> 30 * (2 ^ (i - 1))]
                /\ i < Len(replies)

\* C9 as amended: the attempt with index i that meets a status >= 500 or a
\* transport exception sleeps 30 * 2^i seconds; another request follows when
\* i < max_retries - 1, and after the last attempt the sleep is followed by
\* the return of None; a call makes at most max_retries requests.
C9_BackoffThenRetryUnlessLast ==
    /\ posts <= max_retries
    /\ posts = Len(replies)
    /\ \A i \in 1..Len(replies) :
          IsBackoffReply(replies[i]) =>
              \E k \in 1..Len(sleeps) :
                  sleeps[k] = [after |-> i - 1, secs |-> 30 * (2 ^ (i - 1))]
    /\ rpc = "done" =>
          \A i \in 1..Len(replies) :
              IsBackoffReply(replies[i]) =>
                  IF i < max_retries
                  THEN i < Len(replies)
                  ELSE result = None /\ Len(replies) = max_retries

\* A call whose three attempts met 500, a transport exception and 503: it
\* slept 30, 60 and 120 seconds and returned None.
C9_Witness ==
    /\ rpc = "done"
    /\ result = None
    /\ Len(replies) = 3
    /\ replies[1].status = 500
    /\ replies[2].exc
    /\ replies[3].status = 503
    /\ sleeps = <<[after |-> 0, secs |-> 30], [after |-> 1, secs |-> 60],
                  [after |-> 2, secs |-> 120]>>

----------------------------------------------------------------------------
(* Properties of main (SpecMain).                                          *)

HttpPrefix == <<"h","t","t","p",":","/","/">>
HttpsPrefix == <<"h","t","t","p","s",":","/","/">>

\* A URL with a scheme.
IsAbsolute(u) == StartsWith(u, HttpPrefix) \/ StartsWith(u, HttpsPrefix)

\* C2: every URL of the list discovery returns, by the category loop or by
\* the fallback, is absolute, contains '/products/' and holds no '?'.
C2_DiscoveredUrlsNormalized ==
    via # "none" =>
        \A i \in 1..Len(product_urls) :
            /\ IsAbsolute(product_urls[i])
            /\ Contains(product_urls[i], ProductsSegment)
            /\ ~Contains(product_urls[i], <<"?">>)

\* C6: the 'Original URL' values of the accumulated records are pairwise
\* distinct.
C6_OriginalUrlsDistinct ==
    \A i, j \in 1..Len(products) :
        i # j => products[i].OriginalURL # products[j].OriginalURL

\* C8: the 'Price' of a record is '<current> (was <original>)' when the
\* original price is present (a non-empty string) and differs from the
\* current price, and is the current price itself when the original price
\* equals it, is missing, is null or is empty (a missing current price being
\* the empty string).
C8_PriceDisplay ==
    \A i \in 1..Len(products) :
        LET current == IF api_data[i].current_price = Absent
                       THEN Str("") ELSE api_data[i].current_price
            original == api_data[i].original_price
            present == original.t = "str" /\ original.v # ""
        IN  IF present /\ original # current
            THEN products[i].Price =
                     Str(Format(current) \o " (was " \o original.v \o ")")
            ELSE products[i].Price = current

\* Two records, one of a discounted product and one whose original price
\* equals the current price.
C8_Witness ==
    \E i, j \in 1..Len(products) :
        /\ api_data[i] = [current_price |-> Str("$100"), original_price |-> Str("$150")]
        /\ products[i].Price = Str("$100 (was $150)")
        /\ api_data[j] = [current_price |-> Str("$100"), original_price |-> Str("$100")]
        /\ products[j].Price = Str("$100")

\* C10: a run that found product URLs ends with every URL passed to
\* scrape_product once, in list order, with as many records and failures as
\* URLs, and with the records exported in extraction order; it is never cut
\* short.
C10_EveryUrlScrapedOnce ==
    /\ (pc = "aborted" => product_urls = <<>>)
    /\ (pc = "done" /\ product_urls # <<>>) =>
          /\ scraped = product_urls
          /\ Len(products) + failed_count = Len(product_urls)
          /\ csv_rows = products

----------------------------------------------------------------------------
(* Properties of extract_keywords (SpecKeywords).                          *)

\* The keyword occurs in the text, letter case ignored.
OccursIgnoringCase(keyword, t) ==
    \E o \in 0..(Len(t) - Len(keyword)) :
        \A j \in 1..Len(keyword) : LowerChar(t[o + j]) = LowerChar(keyword[j])

\* C7: the result holds exactly the vocabulary words that occur in the text,
\* letter case ignored, each once, in the vocabulary's spelling and order.
C7_KeywordsInVocabularyOrder ==
    kpc = "done" =>
        /\ \A k \in 1..Len(keywords) :
              Cardinality({i \in 1..Len(found_keywords) : found_keywords[i] = keywords[k]})
                  = IF OccursIgnoringCase(keywords[k], text) THEN 1 ELSE 0
        /\ \A i \in 1..Len(found_keywords) :
              \E k \in 1..Len(keywords) : found_keywords[i] = keywords[k]
        /\ \A i, j \in 1..Len(found_keywords) :
              i < j =>
                  \E k, l \in 1..Len(keywords) :
                      k < l /\ found_keywords[i] = keywords[k] /\ found_keywords[j] = keywords[l]

Handmade == <<"H","a","n","d","m","a","d","e">>
Organic == <<"O","r","g","a","n","i","c">>

\* The text 'organicHANDMADE' gives ['Handmade', 'Organic'].
C7_Witness ==
    /\ kpc = "done"
    /\ Find(text, <<"o","r","g","a","n","i","c">>) = 1
    /\ Find(text, <<"H","A","N","D","M","A","D","E">>) = 8
    /\ found_keywords = <<Handmade, Organic>>

----------------------------------------------------------------------------
(* Properties of clean_description (SpecClean).                            *)

\* The markers that occur in the text.
MarkersIn(d) ==
    {k \in 1..Len(sections_to_remove) : Contains(d, sections_to_remove[k])}

\* The 1-based position of the earliest occurrence of any marker.
EarliestMarker(d) == Min({Find(d, sections_to_remove[k]) : k \in MarkersIn(d)})

\* C3: the text kept by the marker loop is the prefix of the description
\* that ends where the earliest occurrence of any marker starts.
C3_TruncatesAtEarliestMarker ==
    dpc \in {"again", "done"} =>
        truncated = IF MarkersIn(description) = {}
                    THEN description
                    ELSE SubSeq(description, 1, EarliestMarker(description) - 1)

\* C4: cleaning a description that holds no marker a second time changes
\* nothing.
C4_IdempotentWithoutMarkers ==
    (dpc = "done" /\ MarkersIn(description) = {}) => recleaned = cleaned

----------------------------------------------------------------------------
(* Properties of convert_citizenry_json_to_csv (SpecConvert).              *)

\* Row i of the output comes from product i of the input.
RowsFollowInput ==
    /\ Len(out_rows) = Len(json_products)
    /\ \A i \in 1..Len(out_rows) :
          /\ out_rows[i].Name = Cell(json_products[i].Name)
          /\ out_rows[i].OriginalURL = Cell(json_products[i].OriginalURL)

====
